---- MODULE Spec2Model ----
(***************************************************************************)
(* A model of the three programs of the repository:                        *)
(*   bank_account.py     BankAccount                                       *)
(*   student.py          Student, Classroom                                *)
(*   task_manager_oop.py Task, TaskManager                                 *)
(* Each file is a program of its own; a process runs one of them.  The     *)
(* variable program says which, and never changes.                         *)
(*                                                                         *)
(* Every step is one call of a constructor or method.  The call happens at *)
(* a time t >= now (the wall clock never goes back between calls), and     *)
(* last records the call, its arguments, and how it returned.              *)
(***************************************************************************)
EXTENDS Integers, Sequences, FiniteSets, TLC

VARIABLES
    program,              \* which of the three programs this process runs
    now,                  \* datetime.now()
    last,                 \* the last call: operation, arguments, outcome
    _next_account_number, \* BankAccount._next_account_number
    accounts,             \* every BankAccount constructed so far, in order
    _next_id,              \* Student._next_id
    student_heap,         \* every Student constructed so far, in order
    students,             \* Classroom.students: references into student_heap
    tasks                 \* TaskManager.tasks

vars == <<program, now, last, _next_account_number, accounts,
          _next_id, student_heap, students, tasks>>

bankVars == <<_next_account_number, accounts>>
studentVars == <<_next_id, student_heap, students>>
taskVars == <<tasks>>

(***************************************************************************)
(* Bounds of the model.                                                    *)
(***************************************************************************)
\* BankAccount objects constructed in one run.
MaxAccounts == 2
\* Transaction-history entries in one run, over all accounts.
MaxHistory == 3
\* The clock runs over 0..MaxClock in task_manager_oop.py.  In bank_account.py
\* it runs over 0..MaxBankClock: the timestamps are written to the history
\* and read by no operation but the printed statement.
MaxClock == 1
MaxBankClock == 0
\* Student objects constructed in one run, and the length of Classroom.students.
MaxStudents == 2
MaxRoster == 3
\* Grades held in one run, over all students and subjects.
MaxGrades == 2
\* Student objects, positions of Classroom.students and grades, together.
MaxLoad == 5
\* The length of TaskManager.tasks.
MaxTasks == 2
\* Significand width of the model's floats (53 in Python's binary64).
Precision == 2

(***************************************************************************)
(* Python floats.  A float is a dyadic rational; in units of the smallest  *)
(* quantum it is an integer n whose magnitude needs at most Precision      *)
(* significant bits.  +, - on floats compute the exact result and round it *)
(* to the nearest float, ties to the even significand (IEEE 754).  The     *)
(* arithmetic is the same at every scale, so a model value n stands for    *)
(* n * 2^k with any k; an amount passed as a Python int behaves as a float *)
(* that needs no rounding.  Overflow to inf is beyond the model's bounds.   *)
(*                                                                         *)
(* float("nan") is a float too.  It is the value nan here, an integer no   *)
(* arithmetic of the model reaches: every operation with a nan operand     *)
(* gives nan, and every comparison with a nan operand is False.            *)
(***************************************************************************)
nan == -1000

IsNaN(x) == x = nan

\* a < b, a <= b, a > b on floats.
FloatLT(a, b) == ~IsNaN(a) /\ ~IsNaN(b) /\ a < b

FloatLE(a, b) == ~IsNaN(a) /\ ~IsNaN(b) /\ a <= b

FloatGT(a, b) == FloatLT(b, a)

FloatGE(a, b) == FloatLE(b, a)

\* -a
FloatNeg(a) == IF IsNaN(a) THEN nan ELSE -a

RECURSIVE Quantum(_, _)
Quantum(m, q) == IF m < (2 ^ Precision) * q THEN q ELSE Quantum(m, 2 * q)

RoundMagnitude(m) ==
    LET q  == Quantum(m, 1)
        lo == (m \div q) * q
        r  == m - lo
    IN  IF r = 0 THEN m
        ELSE IF 2 * r < q THEN lo
        ELSE IF 2 * r > q THEN lo + q
        ELSE IF (lo \div q) % 2 = 0 THEN lo ELSE lo + q

Round(n) == IF n < 0 THEN -RoundMagnitude(-n) ELSE RoundMagnitude(n)

FloatAdd(a, b) == IF IsNaN(a) \/ IsNaN(b) THEN nan ELSE Round(a + b)

\* "+=" typed for "-=".
FloatSubAsAdd(a, b) == IF IsNaN(a) \/ IsNaN(b) THEN nan ELSE Round(a + b)

FloatSub(a, b) == IF IsNaN(a) \/ IsNaN(b) THEN nan ELSE Round(a - b)

(***************************************************************************)
(* Identifier formatting: f"ACC{n:06d}", f"STU{n:04d}".                     *)
(***************************************************************************)
RECURSIVE Digits(_)
Digits(n) == IF n < 10 THEN <<n>> ELSE Append(Digits(n \div 10), n % 10)

RECURSIVE Zeros(_)
Zeros(k) == IF k <= 0 THEN <<>> ELSE <<0>> \o Zeros(k - 1)

ZeroPad(n, width) == Zeros(width - Len(Digits(n))) \o Digits(n)

FormatId(prefix, n, width) == [prefix |-> prefix, digits |-> ZeroPad(n, width)]

RECURSIVE DigitsValue(_)
DigitsValue(d) ==
    IF d = <<>> THEN 0
    ELSE 10 * DigitsValue(SubSeq(d, 1, Len(d) - 1)) + d[Len(d)]

NumericPart(id) == DigitsValue(id.digits)

(***************************************************************************)
(* The record of a call.                                                   *)
(***************************************************************************)
Call(op, args, ok, raised, ret, pre) ==
    [op |-> op, args |-> args, ok |-> ok, raised |-> raised,
     ret |-> ret, pre |-> pre]

NoCall == Call("none", <<>>, FALSE, FALSE, 0, <<>>)

\* The last value the clock takes; student.py reads no clock.
Horizon ==
    CASE program = "task_manager" -> MaxClock
      [] program = "bank_account" -> MaxBankClock
      [] OTHER -> 0

Times == 0..Horizon

\* The call happens at time t, not before the previous one.
At(t) == t \in now..Horizon /\ now' = t

(***************************************************************************)
(* bank_account.py                                                         *)
(***************************************************************************)
\* The arguments tried.  With Precision = 2 the floats are 0, 1, 2, 3, 4, 6,
\* 8, 12, ...: 3 + 1 and 3 - 1 are exact, 6 + 1 and 6 - 1 are rounded.
\* nan passes the tests of the constructor, of deposit, of withdraw and of
\* transfer alike (each is False for it); it is tried on the constructor.
InitialDeposits == {-1, 0, 3, 6, nan}
Amounts == {0, 1}

\* The entries of all histories together.
TotalHistory ==
    LET RECURSIVE Sum(_)
        Sum(i) == IF i = 0 THEN 0
                  ELSE Len(accounts[i].transaction_history) + Sum(i - 1)
    IN  Sum(Len(accounts))

\* An account object's position in accounts stands for the reference to it.
AccountRefs == 1..Len(accounts)

\* _add_transaction on account a of accs at time t.
_add_transaction(accs, a, t, description, amount) ==
    [accs EXCEPT ![a].transaction_history =
        Append(@, <<t, description, amount, accs[a].balance>>)]

\* The counter left as it is.
SameAccountNumber(n) == n

\* BankAccount._next_account_number += 1
NextAccountNumber(n) == n + 1

\* "amount < 0" in place of "amount <= 0".
Negative(amount) == FloatLT(amount, 0)

\* The test "amount <= 0" of deposit, withdraw and transfer.
NotPositive(amount) == FloatLE(amount, 0)

\* "amount >= self._balance" in place of "amount > self._balance".
ExceedsOrEquals(amount, balance) == FloatGE(amount, balance)

\* The test "amount > self._balance" of withdraw and transfer.
Exceeds(amount, balance) == FloatGT(amount, balance)

\* BankAccount.__init__ at time t.
BankAccount(initial_deposit, t) ==
    /\ program = "bank_account"
    /\ At(t)
    /\ IF FloatLT(initial_deposit, 0)
       THEN /\ last' = Call("BankAccount", <<initial_deposit>>, FALSE, TRUE, 0, <<>>)
            /\ UNCHANGED bankVars
       ELSE /\ Len(accounts) < MaxAccounts
            /\ TotalHistory + (IF FloatGT(initial_deposit, 0) THEN 1 ELSE 0) <= MaxHistory
            /\ LET a    == Len(accounts) + 1
                   obj  == [account_number |->
                               FormatId("ACC", _next_account_number, 6),
                            balance |-> initial_deposit,
                            transaction_history |-> <<>>]
                   accs == Append(accounts, obj)
               IN  /\ accounts' =
                        IF FloatGT(initial_deposit, 0)
                        THEN _add_transaction(accs, a, t, <<"Initial Deposit">>,
                                            initial_deposit)
                        ELSE accs
                   /\ _next_account_number' = NextAccountNumber(_next_account_number)
                   /\ last' = Call("BankAccount", <<initial_deposit>>, TRUE, FALSE, a, <<>>)
    /\ UNCHANGED <<program, studentVars, taskVars>>

\* What a call on account a finds: its balance and the length of its history.
Pre(a) == <<accounts[a].balance, Len(accounts[a].transaction_history)>>

deposit(a, amount, t) ==
    /\ program = "bank_account"
    /\ At(t)
    /\ IF NotPositive(amount)
       THEN /\ last' = Call("deposit", <<a, amount>>, FALSE, FALSE, 0, Pre(a))
            /\ UNCHANGED bankVars
       ELSE /\ TotalHistory < MaxHistory
            /\ LET accs == [accounts EXCEPT ![a].balance = FloatAdd(@, amount)]
               IN  accounts' = _add_transaction(accs, a, t, <<"Deposit">>, amount)
            /\ last' = Call("deposit", <<a, amount>>, TRUE, FALSE, 0, Pre(a))
            /\ UNCHANGED _next_account_number
    /\ UNCHANGED <<program, studentVars, taskVars>>

withdraw(a, amount, t) ==
    /\ program = "bank_account"
    /\ At(t)
    /\ IF NotPositive(amount) \/ Exceeds(amount, accounts[a].balance)
       THEN /\ last' = Call("withdraw", <<a, amount>>, FALSE, FALSE, 0, Pre(a))
            /\ UNCHANGED bankVars
       ELSE /\ TotalHistory < MaxHistory
            /\ LET accs == [accounts EXCEPT ![a].balance = FloatSub(@, amount)]
               IN  accounts' = _add_transaction(accs, a, t, <<"Withdrawal">>,
                                                 FloatNeg(amount))
            /\ last' = Call("withdraw", <<a, amount>>, TRUE, FALSE, 0, Pre(a))
            /\ UNCHANGED _next_account_number
    /\ UNCHANGED <<program, studentVars, taskVars>>

\* self.transfer(recipient, amount); the two _add_transaction calls read the
\* clock at t and at t2 >= t.  self and recipient may be the same object.
transfer(self, recipient, amount, t, t2) ==
    /\ program = "bank_account"
    /\ At(t2)
    /\ t \in now..t2
    /\ IF NotPositive(amount) \/ Exceeds(amount, accounts[self].balance)
       THEN /\ t = t2
            /\ last' = Call("transfer", <<self, recipient, amount>>, FALSE, FALSE, 0,
                            Pre(self) \o Pre(recipient))
            /\ UNCHANGED bankVars
       ELSE /\ TotalHistory + 2 <= MaxHistory
            /\ LET acc1 == [accounts EXCEPT ![self].balance = FloatSub(@, amount)]
                   acc2 == [acc1 EXCEPT ![recipient].balance = FloatAdd(@, amount)]
                   acc3 == _add_transaction(acc2, self, t,
                              <<"Transfer to", accounts[recipient].account_number>>,
                              FloatNeg(amount))
               IN  accounts' = _add_transaction(acc3, recipient, t2,
                              <<"Transfer from", accounts[self].account_number>>,
                              amount)
            /\ last' = Call("transfer", <<self, recipient, amount>>, TRUE, FALSE, 0,
                            Pre(self) \o Pre(recipient))
            /\ UNCHANGED _next_account_number
    /\ UNCHANGED <<program, studentVars, taskVars>>

NextBank ==
    \/ \E d \in InitialDeposits, t \in Times : BankAccount(d, t)
    \/ \E a \in AccountRefs, x \in Amounts, t \in Times : deposit(a, x, t)
    \/ \E a \in AccountRefs, x \in Amounts, t \in Times : withdraw(a, x, t)
    \/ \E a, b \in AccountRefs, x \in Amounts, t, t2 \in Times :
          transfer(a, b, x, t, t2)

(***************************************************************************)
(* student.py                                                              *)
(*                                                                         *)
(* Grades are floats with whole values, so sums of grades are exact.  A     *)
(* quotient of floats is kept as the exact quotient <<p, q>> in lowest     *)
(* terms, which stands for the float nearest to it; the rounding of float  *)
(* division, and of sums of such quotients, is not carried here.           *)
(***************************************************************************)
Ages == {-1, 0, 20}

\* The arguments tried: subject names (the empty string is one), grades in
\* and out of range, a float that is no number.
Subjects == {"", "Math"}
Grades == {-1, 0, 100, 101, nan}

\* A student object's position in student_heap stands for the reference to it.
StudentRefs == 1..Len(student_heap)

\* self.grades = {}: a dict is a function on the keys it holds.
EmptyDict == [subject \in {} |-> <<>>]

\* len(self.grades[subject]) summed over the subjects of one dict.
RECURSIVE CountGrades(_, _)
CountGrades(grades, keys) ==
    IF keys = {} THEN 0
    ELSE LET k == CHOOSE k \in keys : TRUE
         IN  Len(grades[k]) + CountGrades(grades, keys \ {k})

\* The grades held by all students together.
RECURSIVE TotalGrades(_)
TotalGrades(i) ==
    IF i = 0 THEN 0
    ELSE CountGrades(student_heap[i].grades, DOMAIN student_heap[i].grades)
            + TotalGrades(i - 1)

\* The size of a run of student.py: objects, positions and grades.
Load == Len(student_heap) + Len(students) + TotalGrades(Len(student_heap))

RECURSIVE GCD(_, _)
GCD(a, b) == IF b = 0 THEN a ELSE GCD(b, a % b)

\* p / q for p >= 0, q > 0.
Quotient(p, q) == LET g == GCD(p, q) IN <<p \div g, q \div g>>

\* 0.0
Zero == Quotient(0, 1)

\* a + b and a / n on quotients.
QuotientAdd(a, b) == Quotient(a[1] * b[2] + b[1] * a[2], a[2] * b[2])

QuotientDiv(a, n) == Quotient(a[1], a[2] * n)

\* a > b, a >= b on quotients.
QuotientGT(a, b) == a[1] * b[2] > b[1] * a[2]

QuotientGE(a, b) == a[1] * b[2] >= b[1] * a[2]

\* sum(seq) of a list of grades.
RECURSIVE sum(_)
sum(seq) == IF seq = <<>> THEN 0 ELSE seq[1] + sum(Tail(seq))

\* The identifiers a caller may ask for: those handed out and the next one.
StudentIds == {FormatId("STU", n, 4) : n \in 1..(MaxStudents + 1)}

NextStudentId(n) == n + 1

Student(age) ==
    /\ program = "student"
    /\ At(now)
    /\ IF age <= 0
       THEN /\ last' = Call("Student", <<age>>, FALSE, TRUE, 0, <<>>)
            /\ UNCHANGED studentVars
       ELSE /\ Len(student_heap) < MaxStudents
            /\ Load < MaxLoad
            /\ student_heap' = Append(student_heap,
                  [student_id |-> FormatId("STU", _next_id, 4), age |-> age,
                   grades |-> EmptyDict])
            /\ _next_id' = NextStudentId(_next_id)
            /\ last' = Call("Student", <<age>>, TRUE, FALSE, Len(student_heap) + 1, <<>>)
            /\ UNCHANGED students
    /\ UNCHANGED <<program, bankVars, taskVars>>

\* Classroom.add_student(student): appends whatever it is given.
add_student(student) ==
    /\ program = "student"
    /\ At(now)
    /\ Len(students) < MaxRoster
    /\ Load < MaxLoad
    /\ students' = Append(students, student)
    /\ last' = Call("add_student", <<student>>, TRUE, FALSE, 0, <<>>)
    /\ UNCHANGED <<program, _next_id, student_heap, bankVars, taskVars>>

\* The positions of Classroom.students holding student_id, in order.
Matches(student_id) ==
    {i \in 1..Len(students) : student_heap[students[i]].student_id = student_id}

Min(S) == CHOOSE x \in S : \A y \in S : x <= y

\* list.pop(i), i counted from 1.
pop(seq, i) == SubSeq(seq, 1, i - 1) \o SubSeq(seq, i + 1, Len(seq))

remove_student(student_id) ==
    /\ program = "student"
    /\ At(now)
    /\ IF Matches(student_id) # {}
       THEN /\ students' = pop(students, Min(Matches(student_id)))
            /\ last' = Call("remove_student", <<student_id>>, TRUE, FALSE,
                            Min(Matches(student_id)), <<>>)
       ELSE /\ last' = Call("remove_student", <<student_id>>, FALSE, FALSE, 0, <<>>)
            /\ UNCHANGED students
    /\ UNCHANGED <<program, _next_id, student_heap, bankVars, taskVars>>

\* "0 <= grade", without the upper limit.
NotBelowRange(grade) == FloatLE(0, grade)

\* The test "0 <= grade <= 100" of add_grade.
InRange(grade) == FloatLE(0, grade) /\ FloatLE(grade, 100)

\* student.add_grade(subject, grade)
add_grade(student, subject, grade) ==
    /\ program = "student"
    /\ At(now)
    /\ IF ~InRange(grade)
       THEN /\ last' = Call("add_grade", <<student, subject, grade>>,
                            FALSE, TRUE, 0, <<>>)
            /\ UNCHANGED studentVars
       ELSE /\ TotalGrades(Len(student_heap)) < MaxGrades
            /\ Load < MaxLoad
            /\ LET grades == student_heap[student].grades
                   keyed  == IF subject \in DOMAIN grades THEN grades
                             ELSE [k \in DOMAIN grades \cup {subject} |->
                                     IF k = subject THEN <<>> ELSE grades[k]]
               IN  student_heap' =
                      [student_heap EXCEPT ![student].grades =
                          [keyed EXCEPT ![subject] = Append(@, grade)]]
            /\ last' = Call("add_grade", <<student, subject, grade>>,
                            TRUE, FALSE, 0, <<>>)
            /\ UNCHANGED <<_next_id, students>>
    /\ UNCHANGED <<program, bankVars, taskVars>>

\* The indexes tried by remove_grade.
GradeIndexes == {-1, 0, 1}

\* student.remove_grade(subject, index)
remove_grade(student, subject, index) ==
    /\ program = "student"
    /\ At(now)
    /\ LET grades == student_heap[student].grades
       IN  IF /\ subject \in DOMAIN grades
              /\ 0 <= index
              /\ index < Len(grades[subject])
           THEN /\ LET rest == pop(grades[subject], index + 1)
                   IN  student_heap' =
                          [student_heap EXCEPT ![student].grades =
                              IF rest = <<>>
                              THEN [k \in DOMAIN grades \ {subject} |-> grades[k]]
                              ELSE [grades EXCEPT ![subject] = rest]]
                /\ last' = Call("remove_grade", <<student, subject, index>>,
                                TRUE, FALSE, 0, <<>>)
                /\ UNCHANGED <<_next_id, students>>
           ELSE /\ last' = Call("remove_grade", <<student, subject, index>>,
                                FALSE, FALSE, 0, <<>>)
                /\ UNCHANGED studentVars
    /\ UNCHANGED <<program, bankVars, taskVars>>

\* An optional subject argument: <<>> when it is left out (None), <<subject>>
\* when it is given.
OptionalSubjects == {<<>>} \cup {<<subject>> : subject \in Subjects}

\* "if subject": None and the empty string are false.
Truthy(subject) == subject # <<>> /\ subject[1] # ""

\* all_grades: the lists of self.grades.values() one after the other.  (A
\* dict yields them in the order the keys were inserted; sum and len do not
\* depend on the order.)
RECURSIVE all_grades(_, _)
all_grades(grades, keys) ==
    IF keys = {} THEN <<>>
    ELSE LET k == CHOOSE k \in keys : TRUE
         IN  grades[k] \o all_grades(grades, keys \ {k})

\* student.get_average(subject) for a student whose dict is grades.
get_average(grades, subject) ==
    IF Truthy(subject)
    THEN IF subject[1] \in DOMAIN grades /\ grades[subject[1]] # <<>>
         THEN Quotient(sum(grades[subject[1]]), Len(grades[subject[1]]))
         ELSE Zero
    ELSE LET all == all_grades(grades, DOMAIN grades)
         IN  IF all # <<>> THEN Quotient(sum(all), Len(all)) ELSE Zero

\* The call student.get_average(subject), or student.get_average().
GetAverage(student, subject) ==
    /\ program = "student"
    /\ At(now)
    /\ last' = Call("get_average", <<student, subject>>, TRUE, FALSE,
                    get_average(student_heap[student].grades, subject), <<>>)
    /\ UNCHANGED <<program, studentVars, bankVars, taskVars>>

\* s.get_average() of the student at position i of a list of students.
AverageAt(seq, i) == get_average(student_heap[seq[i]].grades, <<>>)

\* sum(student.get_average() for student in self.students[:i])
RECURSIVE total(_)
total(i) == IF i = 0 THEN Zero
            ELSE QuotientAdd(total(i - 1), AverageAt(students, i))

\* The sum of all grades of the students of the classroom over their number.
pooled_average ==
    LET RECURSIVE pool(_)
        pool(i) == IF i = 0 THEN <<>>
                   ELSE pool(i - 1) \o
                        all_grades(student_heap[students[i]].grades,
                                   DOMAIN student_heap[students[i]].grades)
        all == pool(Len(students))
    IN  IF all # <<>> THEN Quotient(sum(all), Len(all)) ELSE Zero

\* The value Classroom.get_class_average() returns.
class_average ==
    IF students = <<>> THEN Zero
    ELSE QuotientDiv(total(Len(students)), Len(students))

\* classroom.get_class_average()
get_class_average ==
    /\ program = "student"
    /\ At(now)
    /\ last' = Call("get_class_average", <<>>, TRUE, FALSE, class_average, <<>>)
    /\ UNCHANGED <<program, studentVars, bankVars, taskVars>>

RECURSIVE sorted(_)

\* A sort that puts a student ahead of those before it of equal average.
sorted_unstable(seq) ==
    IF seq = <<>> THEN <<>>
    ELSE LET n     == Len(seq)
             front == sorted(SubSeq(seq, 1, n - 1))
             ahead == {i \in 1..(n - 1) :
                          QuotientGT(AverageAt(front, i), AverageAt(seq, n))}
             k     == Cardinality(ahead)
         IN  SubSeq(front, 1, k) \o <<seq[n]>> \o SubSeq(front, k + 1, n - 1)

\* sorted(seq, key=lambda s: s.get_average(), reverse=True): a stable sort.
\* Each student goes behind those before it whose average is not smaller.
sorted(seq) ==
    IF seq = <<>> THEN <<>>
    ELSE LET n     == Len(seq)
             front == sorted(SubSeq(seq, 1, n - 1))
             ahead == {i \in 1..(n - 1) :
                          QuotientGE(AverageAt(front, i), AverageAt(seq, n))}
             k     == Cardinality(ahead)
         IN  SubSeq(front, 1, k) \o <<seq[n]>> \o SubSeq(front, k + 1, n - 1)

\* seq[:n]
slice(seq, n) ==
    IF n >= 0
    THEN SubSeq(seq, 1, IF n < Len(seq) THEN n ELSE Len(seq))
    ELSE SubSeq(seq, 1, IF Len(seq) + n > 0 THEN Len(seq) + n ELSE 0)

\* The values of n tried by get_top_students.
TopCounts == (-1)..(Len(students) + 1)

\* classroom.get_top_students(n)
get_top_students(n) ==
    /\ program = "student"
    /\ At(now)
    /\ last' = Call("get_top_students", <<n>>, TRUE, FALSE,
                    slice(sorted(students), n), <<>>)
    /\ UNCHANGED <<program, studentVars, bankVars, taskVars>>

NextStudent ==
    \/ \E age \in Ages : Student(age)
    \/ \E s \in StudentRefs : add_student(s)
    \/ \E id \in StudentIds : remove_student(id)
    \/ \E s \in StudentRefs, subject \in Subjects, grade \in Grades :
          add_grade(s, subject, grade)
    \/ \E s \in StudentRefs, subject \in Subjects, index \in GradeIndexes :
          remove_grade(s, subject, index)
    \/ \E s \in StudentRefs, subject \in OptionalSubjects : GetAverage(s, subject)
    \/ get_class_average
    \/ \E n \in TopCounts : get_top_students(n)

(***************************************************************************)
(* task_manager_oop.py                                                     *)
(***************************************************************************)
\* Strings are sequences of characters; str.strip() drops leading and
\* trailing whitespace.
Whitespace == {" ", "\t", "\n"}

RECURSIVE lstrip(_)
lstrip(str) ==
    IF str # <<>> /\ Head(str) \in Whitespace THEN lstrip(Tail(str)) ELSE str

RECURSIVE rstrip(_)
rstrip(str) ==
    IF str # <<>> /\ str[Len(str)] \in Whitespace
    THEN rstrip(SubSeq(str, 1, Len(str) - 1))
    ELSE str

\* lstrip() called for strip().
strip_left(str) == lstrip(str)

strip(str) == rstrip(lstrip(str))

Titles == { <<>>, <<" ", "\t">>, <<" ", "a", "\n">>, <<"b", " ", "c">> }

\* Indexes a caller may pass: every valid one, -1 and len(tasks).
Indexes == (-1)..Len(tasks)

None == <<>>

\* Task.__init__ at time t.
Task(title, t) ==
    [title |-> title, completed |-> FALSE, created_at |-> t, completed_at |-> None]

\* mark_complete without the test "if not self.completed".
mark_complete_again(task, t) ==
    [task EXCEPT !.completed = TRUE, !.completed_at = <<t>>]

\* Task.mark_complete at time t.
mark_complete(task, t) ==
    IF ~task.completed
    THEN [task EXCEPT !.completed = TRUE, !.completed_at = <<t>>]
    ELSE task

\* Task.mark_incomplete.
mark_incomplete(task) ==
    [task EXCEPT !.completed = FALSE, !.completed_at = None]

\* get_task without the test 0 <= index: a negative index counts from the end.
get_task_from_end(index) ==
    IF index < Len(tasks)
    THEN (IF index < 0 THEN (IF Len(tasks) + index >= 0 THEN Len(tasks) + index + 1 ELSE 0)
          ELSE index + 1)
    ELSE 0

\* TaskManager.get_task: the position of the task, or 0 for None.
get_task(index) == IF 0 <= index /\ index < Len(tasks) THEN index + 1 ELSE 0

add_task(title, t) ==
    /\ program = "task_manager"
    /\ At(t)
    /\ IF strip(title) = <<>>
       THEN /\ last' = Call("add_task", <<title>>, FALSE, TRUE, 0, <<>>)
            /\ UNCHANGED tasks
       ELSE /\ Len(tasks) < MaxTasks
            /\ tasks' = Append(tasks, Task(strip(title), t))
            /\ last' = Call("add_task", <<title>>, TRUE, FALSE, Len(tasks) + 1, <<>>)
    /\ UNCHANGED <<program, bankVars, studentVars>>

mark_task_complete(index, t) ==
    /\ program = "task_manager"
    /\ At(t)
    /\ IF get_task(index) # 0
       THEN /\ tasks' = [tasks EXCEPT ![get_task(index)] = mark_complete(@, t)]
            /\ last' = Call("mark_task_complete", <<index>>, TRUE, FALSE, 0, <<>>)
       ELSE /\ last' = Call("mark_task_complete", <<index>>, FALSE, FALSE, 0, <<>>)
            /\ UNCHANGED tasks
    /\ UNCHANGED <<program, bankVars, studentVars>>

mark_task_incomplete(index, t) ==
    /\ program = "task_manager"
    /\ At(t)
    /\ IF get_task(index) # 0
       THEN /\ tasks' = [tasks EXCEPT ![get_task(index)] = mark_incomplete(@)]
            /\ last' = Call("mark_task_incomplete", <<index>>, TRUE, FALSE, 0, <<>>)
       ELSE /\ last' = Call("mark_task_incomplete", <<index>>, FALSE, FALSE, 0, <<>>)
            /\ UNCHANGED tasks
    /\ UNCHANGED <<program, bankVars, studentVars>>

remove_task(index, t) ==
    /\ program = "task_manager"
    /\ At(t)
    /\ IF 0 <= index /\ index < Len(tasks)
       THEN /\ tasks' = pop(tasks, index + 1)
            /\ last' = Call("remove_task", <<index>>, TRUE, FALSE, 0, <<>>)
       ELSE /\ last' = Call("remove_task", <<index>>, FALSE, FALSE, 0, <<>>)
            /\ UNCHANGED tasks
    /\ UNCHANGED <<program, bankVars, studentVars>>

NotCompleted(task) == ~task.completed

IsCompleted(task) == task.completed

\* The filter without its "not".
Done(seq) == SelectSeq(seq, IsCompleted)

\* [task for task in self.tasks if not task.completed]
Pending(seq) == SelectSeq(seq, NotCompleted)

clear_completed(t) ==
    /\ program = "task_manager"
    /\ At(t)
    /\ tasks' = Pending(tasks)
    /\ last' = Call("clear_completed", <<>>, TRUE, FALSE,
                    Len(tasks) - Len(Pending(tasks)), <<>>)
    /\ UNCHANGED <<program, bankVars, studentVars>>

NextTasks ==
    \/ \E title \in Titles, t \in Times : add_task(title, t)
    \/ \E i \in Indexes, t \in Times : mark_task_complete(i, t)
    \/ \E i \in Indexes, t \in Times : mark_task_incomplete(i, t)
    \/ \E i \in Indexes, t \in Times : remove_task(i, t)
    \/ \E t \in Times : clear_completed(t)

(***************************************************************************)
(* The specifications.                                                     *)
(***************************************************************************)
InitCommon ==
    /\ now = 0
    /\ last = NoCall
    /\ _next_account_number = 1000
    /\ accounts = <<>>
    /\ _next_id = 1
    /\ student_heap = <<>>
    /\ students = <<>>
    /\ tasks = <<>>

InitBank == program = "bank_account" /\ InitCommon

InitStudent == program = "student" /\ InitCommon

InitTasks == program = "task_manager" /\ InitCommon

Init == InitBank \/ InitStudent \/ InitTasks

Next == NextBank \/ NextStudent \/ NextTasks

SpecBank == InitBank /\ [][NextBank]_vars

SpecStudent == InitStudent /\ [][NextStudent]_vars

SpecTasks == InitTasks /\ [][NextTasks]_vars

Spec == Init /\ [][Next]_vars

(***************************************************************************)
(* Properties.  Every step that changes the state is a call, described by  *)
(* last'; the state before the step is the state the call found.           *)
(***************************************************************************)
Abs(n) == IF n < 0 THEN -n ELSE n

Exponents == 0..6

\* n is a float that is a number: a significand of at most Precision bits
\* times a power of 2.
Representable(n) ==
    /\ ~IsNaN(n)
    /\ \E e \in Exponents, m \in 0..(2 ^ Precision - 1) : Abs(n) = m * 2 ^ e

\* The exact sum and difference of two numbers; not a number when an operand
\* is not.
Plus(a, b) == IF IsNaN(a) \/ IsNaN(b) THEN nan ELSE a + b

Minus(a, b) == IF IsNaN(a) \/ IsNaN(b) THEN nan ELSE a - b

\* v is a float nearest to the exact value x >= 0; nan when x is not a number.
Nearest(v, x) ==
    IF IsNaN(x) THEN IsNaN(v)
    ELSE /\ Representable(v)
         /\ \A f \in 0..(2 * x + 2) : Representable(f) => Abs(v - x) <= Abs(f - x)

Balance(a) == accounts[a].balance

History(a) == accounts[a].transaction_history

\* The step is a call of transfer from account s to another account r with
\* an amount x the sender can pay.
PayableTransfer(s, r, x) ==
    /\ last'.op = "transfer"
    /\ last'.args = <<s, r, x>>
    /\ s # r
    /\ FloatLT(0, x)
    /\ FloatLE(x, Balance(s))

\* C1, as stated: a transfer between two accounts of an amount with
\* 0 < amount <= sender balance returns True, takes exactly amount from the
\* sender, adds exactly amount to the recipient, keeps the sum of the two
\* balances, and appends exactly one entry to each of the two histories.
C1_TransferExact ==
    [][\A s, r \in AccountRefs, x \in Amounts :
          PayableTransfer(s, r, x) =>
             /\ last'.ok
             /\ Balance(s)' = Minus(Balance(s), x)
             /\ Balance(r)' = Plus(Balance(r), x)
             /\ Plus(Balance(s)', Balance(r)') = Plus(Balance(s), Balance(r))
             /\ Len(History(s)') = Len(History(s)) + 1
             /\ Len(History(r)') = Len(History(r)) + 1]_vars

\* C1, amended: such a transfer returns True, leaves the sender with a float
\* nearest to balance - amount and the recipient with a float nearest to
\* balance + amount, and appends exactly one entry to each of the two
\* histories; when balance - amount and balance + amount are floats
\* themselves, exactly amount moves and the sum of the two balances is kept.
\* (A recipient whose balance is nan keeps it.)
C1_TransferRounded ==
    [][\A s, r \in AccountRefs, x \in Amounts :
          PayableTransfer(s, r, x) =>
             /\ last'.ok
             /\ Nearest(Balance(s)', Minus(Balance(s), x))
             /\ Nearest(Balance(r)', Plus(Balance(r), x))
             /\ (/\ Representable(Minus(Balance(s), x))
                 /\ Representable(Plus(Balance(r), x))) =>
                   /\ Balance(s)' = Minus(Balance(s), x)
                   /\ Balance(r)' = Plus(Balance(r), x)
                   /\ Plus(Balance(s)', Balance(r)') = Plus(Balance(s), Balance(r))
             /\ Len(History(s)') = Len(History(s)) + 1
             /\ Len(History(r)') = Len(History(r)) + 1
             /\ SubSeq(History(s)', 1, Len(History(s))) = History(s)
             /\ SubSeq(History(r)', 1, Len(History(r))) = History(r)]_vars

\* A transfer between two accounts has succeeded and moved exactly amount.
C1_Witness ==
    /\ last.op = "transfer"
    /\ last.ok
    /\ last.args[1] # last.args[2]
    /\ ~IsNaN(last.pre[3])
    /\ Balance(last.args[1]) = last.pre[1] - last.args[3]
    /\ Balance(last.args[2]) = last.pre[3] + last.args[3]
    /\ Len(History(last.args[1])) = last.pre[2] + 1
    /\ Len(History(last.args[2])) = last.pre[4] + 1

\* The amount of a deposit, withdraw or transfer call: its last argument.
Amount(call) == call.args[Len(call.args)]

\* C2: a withdraw or transfer of more than the balance, and a deposit,
\* withdraw or transfer of an amount <= 0, returns False and leaves every
\* account, its balance and its history, as it was.
C2_RejectedLeavesState ==
    [][(\/ /\ last'.op \in {"withdraw", "transfer"}
           /\ FloatGT(Amount(last'), Balance(last'.args[1]))
        \/ /\ last'.op \in {"deposit", "withdraw", "transfer"}
           /\ FloatLE(Amount(last'), 0))
       => /\ ~last'.ok
          /\ ~last'.raised
          /\ accounts' = accounts]_vars

\* A transfer of more than the sender has, to another account, was refused.
C2_Witness ==
    /\ last.op = "transfer"
    /\ ~last.ok
    /\ last.args[1] # last.args[2]
    /\ FloatGT(last.args[3], 0)
    /\ FloatGT(last.args[3], Balance(last.args[1]))

\* The identifiers of a sequence of objects, oldest first, are pairwise
\* different and their numeric parts increase.
Increasing(ids) ==
    \A i, j \in 1..Len(ids) :
        i < j => /\ ids[i] # ids[j]
                 /\ NumericPart(ids[i]) < NumericPart(ids[j])

AccountNumbers == [i \in 1..Len(accounts) |-> accounts[i].account_number]

StudentNumbers == [i \in 1..Len(student_heap) |-> student_heap[i].student_id]

\* C3: whatever constructions succeeded or failed before, each BankAccount
\* (Student) gets an identifier different from, and numerically greater than,
\* every one given to that type before; no call changes the identifier of an
\* object that exists.
C3_IdentifiersIncrease ==
    [][/\ Increasing(AccountNumbers')
       /\ Increasing(StudentNumbers')
       /\ SubSeq(AccountNumbers', 1, Len(accounts)) = AccountNumbers
       /\ SubSeq(StudentNumbers', 1, Len(student_heap)) = StudentNumbers]_vars

\* A second account has just been constructed.
C3_Witness ==
    /\ last.op = "BankAccount"
    /\ last.ok
    /\ Len(accounts) >= 2
    /\ NumericPart(accounts[2].account_number) = 1001

\* The entry a successful call appends for amount x: the signed amount and
\* the balance the account is left with.
Logged(entry, a, x) == entry[3] = x /\ entry[4] = Balance(a)'

\* Account a's history has grown by exactly one entry, which logs x.
OneEntry(a, x) ==
    /\ Len(History(a)') = Len(History(a)) + 1
    /\ Logged(History(a)'[Len(History(a)')], a, x)

\* C4, as stated: no call shortens or rewrites a history, and each successful
\* deposit, withdraw or transfer appends to each account it affects exactly
\* one tuple <<timestamp, description, signed amount, resulting balance>>,
\* the amount positive for money received and negative for money sent, the
\* balance that of the account after the call.
C4_HistoryAppendOnly ==
    [][/\ \A a \in AccountRefs :
             /\ Len(History(a)') >= Len(History(a))
             /\ SubSeq(History(a)', 1, Len(History(a))) = History(a)
       /\ \A a, b \in AccountRefs, x \in Amounts :
             /\ (last'.ok /\ last'.op = "deposit" /\ last'.args = <<a, x>>) =>
                   OneEntry(a, x)
             /\ (last'.ok /\ last'.op = "withdraw" /\ last'.args = <<a, x>>) =>
                   OneEntry(a, FloatNeg(x))
             /\ (last'.ok /\ last'.op = "transfer" /\ last'.args = <<a, b, x>>) =>
                   OneEntry(a, FloatNeg(x)) /\ OneEntry(b, x)]_vars

\* The step is a call of withdraw(x) on account a that follows a call of
\* deposit(x) on it, x > 0, with no other call between them.
DepositThenWithdraw(a, x) ==
    /\ last.op = "deposit"
    /\ last.args = <<a, x>>
    /\ FloatGT(x, 0)
    /\ last'.op = "withdraw"
    /\ last'.args = <<a, x>>

\* The history of a is what it was before the deposit (n entries), then a
\* deposit of x, then a withdrawal of x.
TwoEntries(a, x, n) ==
    /\ Len(History(a)) = n + 1
    /\ Len(History(a)') = n + 2
    /\ SubSeq(History(a)', 1, n + 1) = History(a)
    /\ History(a)[n + 1][2] = <<"Deposit">>
    /\ History(a)[n + 1][3] = x
    /\ History(a)'[n + 2][2] = <<"Withdrawal">>
    /\ History(a)'[n + 2][3] = FloatNeg(x)

\* C5, as stated: deposit(x) then withdraw(x), x > 0, both return True, the
\* balance is again what it was before the deposit, and the history has
\* gained exactly two entries, +x then -x.
C5_RoundTripExact ==
    [][\A a \in AccountRefs, x \in Amounts :
          DepositThenWithdraw(a, x) =>
             /\ last.ok
             /\ last'.ok
             /\ Balance(a)' = last.pre[1]
             /\ TwoEntries(a, x, last.pre[2])]_vars

\* C5, amended: deposit(x) then withdraw(x), x > 0, both return True and the
\* history gains exactly two entries, +x then -x; the balance after the
\* deposit is a float nearest to balance + x, the balance after the
\* withdrawal a float nearest to that minus x, and it is the balance before
\* the deposit whenever balance + x is a float itself.
C5_RoundTripRounded ==
    [][\A a \in AccountRefs, x \in Amounts :
          DepositThenWithdraw(a, x) =>
             /\ last.ok
             /\ last'.ok
             /\ Nearest(Balance(a), Plus(last.pre[1], x))
             /\ Nearest(Balance(a)', Minus(Balance(a), x))
             /\ Representable(Plus(last.pre[1], x)) => Balance(a)' = last.pre[1]
             /\ TwoEntries(a, x, last.pre[2])]_vars

\* A withdrawal has undone the deposit logged just before it.
C5_Witness ==
    /\ last.op = "withdraw"
    /\ last.ok
    /\ LET h == History(last.args[1])
           n == Len(h)
       IN  /\ n >= 2
           /\ ~IsNaN(Balance(last.args[1]))
           /\ h[n - 1][2] = <<"Deposit">>
           /\ h[n - 1][3] = last.args[2]
           /\ h[n][3] = -last.args[2]
           /\ h[n][4] = h[n - 1][4] - last.args[2]
           /\ h[n][4] = Balance(last.args[1])

\* The student_id held at position i of Classroom.students.
IdAt(i) == student_heap[students[i]].student_id

\* C6: no two positions of Classroom.students hold the same student_id,
\* whatever add_student and remove_student calls were made.
C6_NoDuplicateIds ==
    \A i, j \in 1..Len(students) : i # j => IdAt(i) # IdAt(j)

\* seq2 is seq1 with the element at position i taken out, the others in
\* their order.
Without(seq1, i, seq2) ==
    /\ Len(seq2) = Len(seq1) - 1
    /\ \A k \in 1..Len(seq2) : seq2[k] = IF k < i THEN seq1[k] ELSE seq1[k + 1]

ValidIndex(index) == index \in 0..(Len(tasks) - 1)

\* C7: remove_task, mark_task_complete and mark_task_incomplete with an index
\* outside 0..len(tasks)-1, and remove_student with an id no student of the
\* classroom has, return False and change neither the collection nor any
\* object in it; remove_task with a valid index and remove_student with an id
\* that is held return True and take out exactly that element (for an id, the
\* first that has it), the others keeping their order.
C7_RemovalByIndexOrId ==
    [][/\ (/\ last'.op \in {"remove_task", "mark_task_complete",
                            "mark_task_incomplete"}
           /\ ~ValidIndex(last'.args[1]))
          => ~last'.ok /\ ~last'.raised /\ tasks' = tasks
       /\ \A index \in Indexes :
             (last'.op = "remove_task" /\ last'.args = <<index>>
                 /\ ValidIndex(index))
             => last'.ok /\ Without(tasks, index + 1, tasks')
       /\ \A id \in StudentIds :
             (last'.op = "remove_student" /\ last'.args = <<id>>)
             => IF \E i \in 1..Len(students) : IdAt(i) = id
                THEN /\ last'.ok
                     /\ student_heap' = student_heap
                     /\ \E i \in 1..Len(students) :
                           /\ IdAt(i) = id
                           /\ \A k \in 1..(i - 1) : IdAt(k) # id
                           /\ Without(students, i, students')
                ELSE /\ ~last'.ok
                     /\ ~last'.raised
                     /\ students' = students
                     /\ student_heap' = student_heap]_vars

\* remove_task has taken a task out of a list that still holds another.
C7_Witness ==
    /\ last.op = "remove_task"
    /\ last.ok
    /\ Len(tasks) >= 1

\* The positions of tasks that hold a completed task.
Completed == {i \in 1..Len(tasks) : tasks[i].completed}

\* C8: clear_completed removes exactly the completed tasks, returns how many
\* it removed and keeps the others in their order; called again at once it
\* returns 0 and changes nothing.
C8_ClearCompleted ==
    [][last'.op = "clear_completed" =>
          /\ last'.ret = Cardinality(Completed)
          /\ Len(tasks') = Len(tasks) - Cardinality(Completed)
          /\ \A i \in (1..Len(tasks)) \ Completed :
                tasks'[i - Cardinality({j \in Completed : j < i})] = tasks[i]
          /\ (last.op = "clear_completed" /\ last' # last) =>
                last'.ret = 0 /\ tasks' = tasks]_vars

\* clear_completed has removed a task and kept another.
C8_Witness ==
    /\ last.op = "clear_completed"
    /\ last.ret >= 1
    /\ Len(tasks) >= 1

\* C9: mark_task_complete with a valid index of a task that is completed
\* already returns True and leaves completed and completed_at as the first
\* call set them, however far the clock has moved on.
C9_MarkCompleteIdempotent ==
    [][\A index \in Indexes :
          (/\ last'.op = "mark_task_complete"
           /\ last'.args = <<index>>
           /\ ValidIndex(index)
           /\ tasks[index + 1].completed)
          => /\ last'.ok
             /\ tasks'[index + 1].completed
             /\ tasks'[index + 1].completed_at = tasks[index + 1].completed_at
             /\ tasks' = tasks]_vars

\* mark_task_complete has returned True for a task completed before the
\* time of the call.
C9_Witness ==
    /\ last.op = "mark_task_complete"
    /\ last.ok
    /\ LET task == tasks[last.args[1] + 1]
       IN  /\ task.completed
           /\ task.completed_at # None
           /\ task.completed_at[1] < now

\* The title without its leading and trailing whitespace: the characters from
\* the first to the last that is not whitespace.
Inked(title) == {i \in 1..Len(title) : title[i] \notin Whitespace}

Max(S) == CHOOSE x \in S : \A y \in S : x >= y

Stripped(title) ==
    IF Inked(title) = {} THEN <<>>
    ELSE SubSeq(title, Min(Inked(title)), Max(Inked(title)))

\* C10: add_task with a title that is empty or all whitespace raises and
\* leaves the list as it was; with any other title it appends exactly one
\* task, not completed, titled with the stripped title, and returns it.
C10_AddTask ==
    [][\A title \in Titles :
          (last'.op = "add_task" /\ last'.args = <<title>>)
          => IF Inked(title) = {}
             THEN last'.raised /\ ~last'.ok /\ tasks' = tasks
             ELSE /\ last'.ok
                  /\ ~last'.raised
                  /\ Len(tasks') = Len(tasks) + 1
                  /\ SubSeq(tasks', 1, Len(tasks)) = tasks
                  /\ last'.ret = Len(tasks')
                  /\ tasks'[last'.ret].title = Stripped(title)
                  /\ ~tasks'[last'.ret].completed
                  /\ tasks'[last'.ret].completed_at = None]_vars

\* add_task has appended a task whose title had whitespace to strip.
C10_Witness ==
    /\ last.op = "add_task"
    /\ last.ok
    /\ Len(tasks[Len(tasks)].title) < Len(last.args[1])
    /\ tasks[Len(tasks)].title = Stripped(last.args[1])

\* C15: the balance of every account constructed is >= 0 after any calls of
\* deposit, withdraw and transfer with any arguments.
C15_BalanceNonNegative ==
    \A a \in AccountRefs : FloatGE(Balance(a), 0)

\* The signed amounts of a history added up in floats, oldest first; 0 for
\* an empty history.
RECURSIVE SignedSum(_)
SignedSum(history) ==
    IF history = <<>> THEN 0
    ELSE FloatAdd(SignedSum(SubSeq(history, 1, Len(history) - 1)),
                  history[Len(history)][3])

\* C16: the balance of every account constructed is the sum of the signed
\* amounts of the entries of its own history, after any calls of deposit,
\* withdraw and transfer.
C16_BalanceIsHistorySum ==
    \A a \in AccountRefs : Balance(a) = SignedSum(History(a))

\* The grades student s holds under subject: none when the key is absent.
Held(s, subject) ==
    IF subject \in DOMAIN student_heap[s].grades
    THEN student_heap[s].grades[subject]
    ELSE <<>>

\* The sum of a list of grades.
RECURSIVE SeqSum(_)
SeqSum(seq) ==
    IF seq = <<>> THEN 0
    ELSE SeqSum(SubSeq(seq, 1, Len(seq) - 1)) + seq[Len(seq)]

\* The sum and the number of the grades student s holds under subjects.
RECURSIVE SumOver(_, _)
SumOver(s, subjects) ==
    IF subjects = {} THEN 0
    ELSE LET k == CHOOSE k \in subjects : TRUE
         IN  SeqSum(Held(s, k)) + SumOver(s, subjects \ {k})

RECURSIVE CountOver(_, _)
CountOver(s, subjects) ==
    IF subjects = {} THEN 0
    ELSE LET k == CHOOSE k \in subjects : TRUE
         IN  Len(Held(s, k)) + CountOver(s, subjects \ {k})

\* The returned value r is sum / count, or 0 when count is 0.
IsMean(r, sum_, count) ==
    /\ r[2] > 0
    /\ IF count = 0 THEN r[1] = 0 ELSE r[1] * count = r[2] * sum_

\* The overall average of student s as a fraction <<sum, count>>; 0 / 1 for
\* a student without grades.
OwnAverage(s) ==
    IF CountOver(s, Subjects) = 0 THEN <<0, 1>>
    ELSE <<SumOver(s, Subjects), CountOver(s, Subjects)>>

\* The sum of the overall averages of the students at the first i positions
\* of Classroom.students, as a fraction.
RECURSIVE SumOfAverages(_)
SumOfAverages(i) ==
    IF i = 0 THEN <<0, 1>>
    ELSE LET t == SumOfAverages(i - 1)
             a == OwnAverage(students[i])
         IN  <<t[1] * a[2] + a[1] * t[2], t[2] * a[2]>>

\* The sum and the number of all grades of the students of the classroom,
\* a student counted once for each position it holds.
RECURSIVE PooledSum(_)
PooledSum(i) ==
    IF i = 0 THEN 0 ELSE PooledSum(i - 1) + SumOver(students[i], Subjects)

RECURSIVE PooledCount(_)
PooledCount(i) ==
    IF i = 0 THEN 0 ELSE PooledCount(i - 1) + CountOver(students[i], Subjects)

\* C11: get_class_average() returns the mean, over the positions of
\* Classroom.students, of the student's own overall average, a student
\* without grades counting as 0; it returns 0 for an empty classroom; it
\* changes nothing.
C11_ClassAverage ==
    [][last'.op = "get_class_average" =>
          /\ last'.ok
          /\ IsMean(last'.ret,
                    SumOfAverages(Len(students))[1],
                    SumOfAverages(Len(students))[2] * Len(students))
          /\ students = <<>> => last'.ret[1] = 0
          /\ UNCHANGED studentVars]_vars

\* get_class_average() has returned a value that is not the pooled mean of
\* the grades of the classroom, one of whose students has no grades.
C11_Witness ==
    /\ last.op = "get_class_average"
    /\ Len(students) >= 2
    /\ \E i \in 1..Len(students) : CountOver(students[i], Subjects) = 0
    /\ PooledCount(Len(students)) > 0
    /\ ~IsMean(last.ret, PooledSum(Len(students)), PooledCount(Len(students)))

\* The student at position i of Classroom.students has a greater overall
\* average than the one at position j; the two have the same.
Higher(i, j) ==
    LET a == OwnAverage(students[i])
        b == OwnAverage(students[j])
    IN  a[1] * b[2] > b[1] * a[2]

Level(i, j) == ~Higher(i, j) /\ ~Higher(j, i)

\* The place of position i in the ranking: behind every position of greater
\* average and every earlier position of the same average.
Rank(i) ==
    1 + Cardinality({j \in 1..Len(students) :
                        Higher(j, i) \/ (Level(i, j) /\ j < i)})

\* C12: get_top_students(n) returns the students of the classroom by
\* non-increasing overall average, students of equal average in the order
\* they hold in Classroom.students, cut to the first n; all of them when n
\* exceeds their number; Classroom.students is left as it is.
C12_TopStudents ==
    [][last'.op = "get_top_students" =>
          LET n == last'.args[1]
              r == last'.ret
          IN  /\ last'.ok
              /\ Len(r) <= Len(students)
              /\ n >= 0 => Len(r) = (IF n < Len(students) THEN n
                                                          ELSE Len(students))
              /\ \A i \in 1..Len(students) :
                    Rank(i) <= Len(r) => r[Rank(i)] = students[i]
              /\ UNCHANGED studentVars]_vars

\* get_top_students has returned two different students of the same average,
\* the first of which holds a grade, in the order they hold in the classroom.
C12_Witness ==
    /\ last.op = "get_top_students"
    /\ Len(students) >= 2
    /\ Len(last.ret) >= 2
    /\ students[1] # students[2]
    /\ Level(1, 2)
    /\ CountOver(students[1], Subjects) > 0
    /\ last.ret[1] = students[1]
    /\ last.ret[2] = students[2]

\* C13: get_average(s) returns the mean of the grades held under s, 0 when
\* there is none, for every subject name s that add_grade accepts;
\* get_average() returns the sum of all grades over their number, 0 when
\* the student has no grades.
C13_Average ==
    [][last'.op = "get_average" =>
          LET s       == last'.args[1]
              subject == last'.args[2]
          IN  IF subject = <<>>
              THEN IsMean(last'.ret, SumOver(s, Subjects), CountOver(s, Subjects))
              ELSE IsMean(last'.ret, SeqSum(Held(s, subject[1])),
                          Len(Held(s, subject[1])))]_vars

\* Every grade held by every student lies in 0..100.
StoredGradesInRange ==
    \A s \in StudentRefs : \A subject \in DOMAIN student_heap[s].grades :
        \A i \in 1..Len(student_heap[s].grades[subject]) :
            LET grade == student_heap[s].grades[subject][i]
            IN  ~IsNaN(grade) /\ 0 <= grade /\ grade <= 100

\* C14: add_grade with a grade < 0 or > 100 (or one that is no number)
\* raises the validation error and leaves the grades of every student as
\* they were, no key created; after every call every grade held is in
\* 0..100.
C14_GradesInRange ==
    [][/\ (/\ last'.op = "add_grade"
           /\ \/ FloatLT(last'.args[3], 0)
              \/ FloatGT(last'.args[3], 100)
              \/ IsNaN(last'.args[3]))
          => /\ last'.raised
             /\ ~last'.ok
             /\ UNCHANGED studentVars
       /\ StoredGradesInRange']_vars

\* add_grade has raised for a grade above 100 and a subject the student has
\* no key for, while the student holds a grade.
C14_Witness ==
    /\ last.op = "add_grade"
    /\ last.raised
    /\ FloatGT(last.args[3], 100)
    /\ last.args[2] \notin DOMAIN student_heap[last.args[1]].grades
    /\ DOMAIN student_heap[last.args[1]].grades # {}

====
